---- MODULE Spec2Model ----
(***************************************************************************)
(* Model of the content generation pipeline of                             *)
(* realtimex_social_media_posts_tools: PlatformFormatter, TextGenerator,   *)
(* ImageGenerator, ContentCreator and the draft_post_content tool.         *)
(*                                                                         *)
(* Text is a sequence of one-character strings, a Python dict is a         *)
(* function whose domain is its set of keys, a Python list is a sequence.  *)
(***************************************************************************)
EXTENDS Integers, Sequences, FiniteSets, TLC

(***************************************************************************)
(* Bounds of the model.                                                    *)
(***************************************************************************)
\* how many characters beyond a platform's max_length the longest text runs
Over == 1
\* longest content_urls list passed to draft_post_content
MaxUrls == 2

(***************************************************************************)
(* Characters and strings.                                                 *)
(***************************************************************************)
\* the characters matched by \w among those the model's texts use
WordChars == {"a", "b", "c", "d", "e", "f", "g", "h", "i", "k", "l", "m", "n",
              "o", "p", "r", "s", "t", "u", "v", "x", "y", "A", "D", "I", "M", "L", "T",
              "_", "1"}

\* the characters str.strip() removes among those the model's texts use
Whitespace == {" ", "\n"}

\* str.lower() on one character
LowerChar(c) ==
    CASE c = "A" -> "a"
      [] c = "D" -> "d"
      [] c = "T" -> "t"
      [] c = "I" -> "i"
      [] c = "M" -> "m"
      [] c = "L" -> "l"
      [] OTHER -> c

\* str.lower()
Lower(s) == [i \in 1..Len(s) |-> LowerChar(s[i])]

\* the Python test `sub in s` on strings
Contains(s, sub) ==
    \E i \in 0..(Len(s) - Len(sub)) : SubSeq(s, i + 1, i + Len(sub)) = sub

\* str.strip(): drop leading and trailing whitespace
Strip(s) ==
    LET n == Len(s)
    IN IF \A i \in 1..n : s[i] \in Whitespace THEN <<>>
       ELSE LET first == CHOOSE i \in 1..n :
                            s[i] \notin Whitespace /\ \A j \in 1..(i - 1) : s[j] \in Whitespace
                last == CHOOSE i \in 1..n :
                           s[i] \notin Whitespace /\ \A j \in (i + 1)..n : s[j] \in Whitespace
            IN SubSeq(s, first, last)

\* the slice s[:n] for n >= 0
Prefix(s, n) == SubSeq(s, 1, IF n < Len(s) THEN n ELSE Len(s))

Ellipsis == <<".", ".", ".">>

(***************************************************************************)
(* Python dicts.                                                           *)
(***************************************************************************)
EmptyDict == [k \in {} |-> 0]

\* d[k] = v
Put(d, k, v) == (k :> v) @@ d

\* d.get(k, default)
Get(d, k, default) == IF k \in DOMAIN d THEN d[k] ELSE default

(***************************************************************************)
(* PlatformFormatter: the constraint table.                                *)
(***************************************************************************)
TwitterMaxLength == 280
InstagramMaxLength == 2200
LinkedinMaxLength == 3000
TwitterHashtagLimit == 3
InstagramHashtagLimit == 30
LinkedinHashtagLimit == 5
DefaultMaxLength == 280
DefaultMaxHashtags == 3

platform_constraints ==
    [twitter   |-> [max_length |-> TwitterMaxLength,
                    hashtag_limit |-> TwitterHashtagLimit,
                    ideal_image_ratio |-> "16:9"],
     instagram |-> [max_length |-> InstagramMaxLength,
                    hashtag_limit |-> InstagramHashtagLimit,
                    ideal_image_ratio |-> "1:1"],
     linkedin  |-> [max_length |-> LinkedinMaxLength,
                    hashtag_limit |-> LinkedinHashtagLimit,
                    ideal_image_ratio |-> "1.91:1"]]

Platforms == DOMAIN platform_constraints

\* the platform names callers pass, supported or not, in several letter cases
PlatformNames == {"twitter", "instagram", "linkedin", "tiktok", "x", "X", "Twitter"}

\* str.lower() on a platform name
LowerName(p) ==
    CASE p = "X" -> "x"
      [] p = "Twitter" -> "twitter"
      [] OTHER -> p

(***************************************************************************)
(* PlatformFormatter.extract_hashtags                                      *)
(***************************************************************************)
\* where re.findall(r'#(\w+)', text) matches: a '#' followed by a word
\* character ('#' is no word character, so matches never overlap)
MatchStarts(text) ==
    LET n == Len(text)
    IN {i \in 1..(n - 1) : text[i] = "#" /\ text[i + 1] \in WordChars}

\* the group of the match starting at i: the longest run of word characters
MatchGroup(text, i) ==
    LET n == Len(text)
        stops == {j \in (i + 1)..(n + 1) : j = n + 1 \/ text[j] \notin WordChars}
        stop == CHOOSE j \in stops : \A k \in stops : j <= k
    IN SubSeq(text, i + 1, stop - 1)

RECURSIVE FindAllFrom(_, _)
FindAllFrom(text, from) ==
    LET starts == {i \in MatchStarts(text) : i >= from}
    IN IF starts = {} THEN <<>>
       ELSE LET i == CHOOSE s \in starts : \A t \in starts : s <= t
            IN <<MatchGroup(text, i)>> \o FindAllFrom(text, i + 1)

\* re.findall(r'#(\w+)', text)
FindAll(text) == FindAllFrom(text, 1)

InList(x, list) == \E i \in 1..Len(list) : list[i] = x

RECURSIVE Unique_CaseFold(_, _)
\* the removal of duplicates comparing the tags lower-cased
Unique_CaseFold(tags, unique) ==
    IF tags = <<>> THEN unique
    ELSE Unique_CaseFold(Tail(tags),
                         IF \E i \in 1..Len(unique) : Lower(unique[i]) = Lower(Head(tags))
                         THEN unique
                         ELSE Append(unique, Head(tags)))

RECURSIVE Unique(_, _)
\* the loop "for tag in hashtags: if tag not in unique: unique.append(tag)"
Unique(tags, unique) ==
    IF tags = <<>> THEN unique
    ELSE Unique(Tail(tags),
                IF InList(Head(tags), unique) THEN unique
                ELSE Append(unique, Head(tags)))

extract_hashtags(text) ==
    IF text = <<>> THEN <<>> ELSE Unique(FindAll(text), <<>>)

(***************************************************************************)
(* PlatformFormatter.format_for_platform                                   *)
(***************************************************************************)
\* the error descriptor {"error": f"Unsupported platform: {platform}"}
UnsupportedPlatform(platform) == <<"Unsupported platform", platform>>

\* Truncate without the room for the ellipsis: text[:max_length] + "..."
Truncate_NoRoom(text, max_length) == Prefix(text, max_length) \o Ellipsis

\* trunc_length = max_length - 3; text[:trunc_length] + "..."
Truncate(text, max_length) == Prefix(text, max_length - 3) \o Ellipsis

_format_for_twitter(content) ==
    LET constraints == platform_constraints["twitter"]
        text == Get(content, "text", <<>>)
        hashtags == extract_hashtags(text)
        f1 == IF hashtags # <<>> THEN Put(content, "hashtags", hashtags) ELSE content
        f2 == IF Len(text) > constraints.max_length
              THEN Put(f1, "text", Truncate(text, constraints.max_length))
              ELSE f1
        f3 == Put(f2, "image_ratio", constraints.ideal_image_ratio)
    IN Put(f3, "platform", "twitter")

_format_for_instagram(content) ==
    LET constraints == platform_constraints["instagram"]
        given == Get(content, "caption", <<>>)
        caption == IF given = <<>> /\ "text" \in DOMAIN content
                   THEN content["text"] ELSE given
        hashtags == extract_hashtags(caption)
        f1 == IF hashtags # <<>> THEN Put(content, "hashtags", hashtags) ELSE content
        f2 == IF Len(caption) > constraints.max_length
              THEN Put(f1, "caption", Truncate(caption, constraints.max_length))
              ELSE Put(f1, "caption", caption)
        f3 == Put(f2, "image_ratio", constraints.ideal_image_ratio)
    IN Put(f3, "platform", "instagram")

_format_for_linkedin(content) ==
    LET constraints == platform_constraints["linkedin"]
        text == Get(content, "text", <<>>)
        hashtags == extract_hashtags(text)
        f1 == IF hashtags # <<>> THEN Put(content, "hashtags", hashtags) ELSE content
        f2 == IF Len(text) > constraints.max_length
              THEN Put(f1, "text", Truncate(text, constraints.max_length))
              ELSE f1
        f3 == Put(f2, "image_ratio", constraints.ideal_image_ratio)
    IN Put(f3, "platform", "linkedin")

\* format_for_platform falling through to its last line, "return content",
\* for a platform the table does not hold
format_for_platform_Passthrough(content, platform) ==
    IF platform \notin DOMAIN platform_constraints
    THEN content
    ELSE CASE platform = "twitter" -> _format_for_twitter(content)
           [] platform = "instagram" -> _format_for_instagram(content)
           [] platform = "linkedin" -> _format_for_linkedin(content)

format_for_platform(content, platform) ==
    IF platform \notin DOMAIN platform_constraints
    THEN Put(EmptyDict, "error", UnsupportedPlatform(platform))
    ELSE CASE platform = "twitter" -> _format_for_twitter(content)
           [] platform = "instagram" -> _format_for_instagram(content)
           [] platform = "linkedin" -> _format_for_linkedin(content)

(***************************************************************************)
(* PlatformFormatter: the constraint lookups.                              *)
(***************************************************************************)
get_image_aspect_ratio(platform) ==
    IF platform \notin DOMAIN platform_constraints
    THEN "1:1"
    ELSE platform_constraints[platform].ideal_image_ratio

get_max_hashtags(platform) ==
    IF platform \notin DOMAIN platform_constraints
    THEN DefaultMaxHashtags
    ELSE platform_constraints[platform].hashtag_limit

get_max_length(platform) ==
    IF platform \notin DOMAIN platform_constraints
    THEN DefaultMaxLength
    ELSE platform_constraints[platform].max_length

(***************************************************************************)
(* Results of calls: a value returned or an exception raised.              *)
(***************************************************************************)
NoResult == [status |-> "none", value |-> EmptyDict]
Returned(v) == [status |-> "returned", value |-> v]
Raised(type, message) ==
    [status |-> "raised", value |-> [type |-> type, message |-> message]]

\* the dict {"error": message}
ErrorDict(message) == Put(EmptyDict, "error", message)

(***************************************************************************)
(* Inputs: trend data, product information, texts.                         *)
(***************************************************************************)
Tag_a == <<"a">>
Tag_b == <<"b">>
Tag_c == <<"c">>
Tag_funny == <<"f", "u", "n", "n", "y">>
Tag_party == <<"p", "a", "r", "t", "y">>
Tag_techinnovation ==
    <<"t", "e", "c", "h", "i", "n", "n", "o", "v", "a", "t", "i", "o", "n">>

\* trend_data: "content" is always there, "hashtags" and "source" may be
TrendInputs ==
    { ("content" :> <<"news">>),
      ("content" :> <<"news">>) @@ ("hashtags" :> <<Tag_a, Tag_b, Tag_c>>)
          @@ ("source" :> "scanner"),
      ("content" :> <<"news">>)
          @@ ("hashtags" :> <<Tag_funny, Tag_techinnovation, Tag_party>>) }

\* product_info: a list of {name, description, benefit}
ProductFeatures == <<[name |-> "n", description |-> "d", benefit |-> "b"]>>

\* " Hi #AI #ai #AI\n": hashtags, one of them twice, whitespace at both ends
TaggedText ==
    <<" ", "H", "i", " ", "#", "A", "I", " ", "#", "a", "i", " ", "#", "A", "I", "\n">>

\* "Hello": no hashtag
PlainText == <<"H", "e", "l", "l", "o">>

\* "#ML xxxx...": n characters, one hashtag
LongText(n) ==
    SubSeq([i \in 1..n |-> CASE i = 1 -> "#" [] i = 2 -> "M" [] i = 3 -> "L"
                              [] i = 4 -> " " [] OTHER -> "x"], 1, n)

\* "#ML xxxx... #ab": n characters, a hashtag at the start and one at the end
TailTaggedText(n) ==
    SubSeq([i \in 1..n |-> CASE i = 1 -> "#" [] i = 2 -> "M" [] i = 3 -> "L"
                              [] i = 4 -> " " [] i = n - 3 -> " " [] i = n - 2 -> "#"
                              [] i = n - 1 -> "a" [] i = n -> "b" [] OTHER -> "x"], 1, n)

\* message.content of a completion for a platform's prompt: the model is not
\* bound by the prompt's "Max length", max_tokens counts tokens
Completions(platform) ==
    {TaggedText, PlainText}
        \cup {LongText(platform_constraints[platform].max_length + k) : k \in 1..Over}

\* "#a #b #c", "#a #b #c #d", "#a #b #c #d #e": three, four and five hashtags
ThreeTags ==
    <<"#", "a", " ", "#", "b", " ", "#", "c">>
FourTags ==
    <<"#", "a", " ", "#", "b", " ", "#", "c", " ", "#", "d">>
FiveTags ==
    <<"#", "a", " ", "#", "b", " ", "#", "c", " ", "#", "d", " ", "#", "e">>

\* completions with hashtags around the thresholds of the backfill rules, given
\* to generate_content called on its own
HashtagTexts == {ThreeTags, FourTags, FiveTags}

CompletionsOf(op, platform) ==
    IF op = "generate_content"
    THEN Completions(platform) \cup HashtagTexts
    ELSE Completions(platform)

\* trend hashtags as a trend source may hold them: one tag; twelve tags, one
\* of them twice and one with its '#'; tags without a professional indicator
LongTrend ==
    <<Tag_a, Tag_a, <<"#", "b">>, Tag_b, Tag_c, <<"d">>, <<"e">>, <<"f">>, <<"g">>,
      <<"h">>, <<"i">>, <<"j">>>>

HashtagTrends ==
    { ("content" :> <<"news">>) @@ ("hashtags" :> <<Tag_a>>),
      ("content" :> <<"news">>) @@ ("hashtags" :> LongTrend),
      ("content" :> <<"news">>) @@ ("hashtags" :> <<Tag_funny, Tag_party>>),
      ("content" :> <<"news">>) @@ ("hashtags" :> <<>>) }

\* the exceptions chat.completions.create raises
CompletionErrors == {"APIConnectionError", "BadRequestError"}

(***************************************************************************)
(* PlatformFormatter.format_*_prompt                                       *)
(***************************************************************************)
\* the parts joined into the prompt
format_prompt(platform, trend_data, product_info) ==
    <<"Create a great social media post for", platform,
      "Max length: ", platform_constraints[platform].max_length,
      "Hashtag limit: ", platform_constraints[platform].hashtag_limit,
      "Contents to make post:", trend_data["content"],
      "Products:", product_info>>

(***************************************************************************)
(* ContentCreator: hashtags and assembly of the post.                      *)
(***************************************************************************)
\* trend_data.get("hashtags") is truthy
HasTrendHashtags(trend_data) ==
    "hashtags" \in DOMAIN trend_data /\ trend_data["hashtags"] # <<>>

\* the timestamp datetime.now().isoformat() gives at assembly
Now == "now"

professional_indicators ==
    { <<"t", "e", "c", "h">>,
      <<"i", "n", "d", "u", "s", "t", "r", "y">>,
      <<"b", "u", "s", "i", "n", "e", "s", "s">>,
      <<"p", "r", "o", "f", "e", "s", "s", "i", "o", "n", "a", "l">>,
      <<"c", "a", "r", "e", "e", "r">>,
      <<"e", "d", "u", "c", "a", "t", "i", "o", "n">>,
      <<"s", "c", "i", "e", "n", "c", "e">>,
      <<"r", "e", "s", "e", "a", "r", "c", "h">>,
      <<"d", "e", "v", "e", "l", "o", "p", "m", "e", "n", "t">>,
      <<"i", "n", "n", "o", "v", "a", "t", "i", "o", "n">>,
      <<"l", "e", "a", "d", "e", "r", "s", "h", "i", "p">>,
      <<"m", "a", "n", "a", "g", "e", "m", "e", "n", "t">>,
      <<"s", "t", "r", "a", "t", "e", "g", "y">>,
      <<"g", "r", "o", "w", "t", "h">>,
      <<"a", "n", "a", "l", "y", "s", "i", "s">>,
      <<"d", "a", "t", "a">>,
      <<"e", "n", "g", "i", "n", "e", "e", "r", "i", "n", "g">>,
      <<"s", "t", "e", "m">>,
      <<"a", "c", "a", "d", "e", "m", "i", "c">>,
      <<"l", "e", "a", "r", "n", "i", "n", "g">> }

\* the indicators looked for in the tag as written
IsProfessional_CaseSensitive(tag) ==
    \E indicator \in professional_indicators : Contains(tag, indicator)

IsProfessional(tag) ==
    \E indicator \in professional_indicators : Contains(Lower(tag), indicator)

_filter_professional_hashtags(hashtags) ==
    LET professional_tags == SelectSeq(hashtags, IsProfessional)
    IN IF professional_tags = <<>> THEN Prefix(hashtags, 4) ELSE professional_tags

RECURSIVE AppendNew(_, _, _)
\* "for tag in tags: if tag not in hashtags and len(hashtags) < limit:
\*      hashtags.append(tag)"
AppendNew(hashtags, tags, limit) ==
    IF tags = <<>> THEN hashtags
    ELSE AppendNew(IF ~InList(Head(tags), hashtags) /\ Len(hashtags) < limit
                   THEN Append(hashtags, Head(tags)) ELSE hashtags,
                   Tail(tags), limit)

TwitterBackfill == 2
InstagramBackfillBelow == 5
InstagramBackfillTo == 10
LinkedinBackfillBelow == 3
LinkedinBackfillTo == 4

\* the backfill taking three trend hashtags
twitter_hashtags_Three(text_content, trend_data) ==
    LET hashtags == extract_hashtags(text_content)
    IN IF hashtags = <<>> /\ HasTrendHashtags(trend_data)
       THEN Prefix(trend_data["hashtags"], 3)
       ELSE hashtags

twitter_hashtags(text_content, trend_data) ==
    LET hashtags == extract_hashtags(text_content)
    IN IF hashtags = <<>> /\ HasTrendHashtags(trend_data)
       THEN Prefix(trend_data["hashtags"], TwitterBackfill)
       ELSE hashtags

\* the backfill appending without looking for the tag in the list
instagram_hashtags_NoSkip(caption, trend_data) ==
    LET hashtags == extract_hashtags(caption)
    IN IF Len(hashtags) < InstagramBackfillBelow /\ HasTrendHashtags(trend_data)
       THEN Prefix(hashtags \o trend_data["hashtags"], InstagramBackfillTo)
       ELSE hashtags

instagram_hashtags(caption, trend_data) ==
    LET hashtags == extract_hashtags(caption)
    IN IF Len(hashtags) < InstagramBackfillBelow /\ HasTrendHashtags(trend_data)
       THEN AppendNew(hashtags, trend_data["hashtags"], InstagramBackfillTo)
       ELSE hashtags

\* the backfill taking the trend hashtags unfiltered
linkedin_hashtags_Unfiltered(post_text, trend_data) ==
    LET hashtags == extract_hashtags(post_text)
    IN IF Len(hashtags) < LinkedinBackfillBelow /\ HasTrendHashtags(trend_data)
       THEN AppendNew(hashtags, trend_data["hashtags"], LinkedinBackfillTo)
       ELSE hashtags

linkedin_hashtags(post_text, trend_data) ==
    LET hashtags == extract_hashtags(post_text)
    IN IF Len(hashtags) < LinkedinBackfillBelow /\ HasTrendHashtags(trend_data)
       THEN AppendNew(hashtags,
                      _filter_professional_hashtags(trend_data["hashtags"]),
                      LinkedinBackfillTo)
       ELSE hashtags

RECURSIVE JoinTags(_)
\* " ".join([f"#{tag}" for tag in hashtags])
JoinTags(hashtags) ==
    IF hashtags = <<>> THEN <<>>
    ELSE IF Len(hashtags) = 1 THEN <<"#">> \o Head(hashtags)
    ELSE <<"#">> \o Head(hashtags) \o <<" ">> \o JoinTags(Tail(hashtags))

\* steps 4 and 5 of _generate_twitter_content
_generate_twitter_content(text_content, trend_data, image_info) ==
    LET result == ("platform" :> "twitter")
                  @@ ("text" :> text_content)
                  @@ ("hashtags" :> twitter_hashtags(text_content, trend_data))
                  @@ ("character_count" :> Len(text_content))
                  @@ ("timestamp" :> Now)
                  @@ ("trend_source" :> Get(trend_data, "source", "unknown"))
                  @@ ("moderation_passed" :> TRUE)
    IN IF image_info # EmptyDict THEN Put(result, "image", image_info) ELSE result

\* the assembly of the Instagram post done as for the other platforms: the
\* image added when there is one, nothing said when there is none
_generate_instagram_content_Silent(caption, trend_data, image_info) ==
    LET hashtags == instagram_hashtags(caption, trend_data)
        result == ("platform" :> "instagram")
                  @@ ("caption" :> caption)
                  @@ ("hashtags" :> hashtags)
                  @@ ("hashtag_string" :> JoinTags(hashtags))
                  @@ ("character_count" :> Len(caption))
                  @@ ("timestamp" :> Now)
                  @@ ("trend_source" :> Get(trend_data, "source", "unknown"))
                  @@ ("moderation_passed" :> TRUE)
    IN IF image_info # EmptyDict THEN Put(result, "image", image_info) ELSE result

\* steps 4 and 5 of _generate_instagram_content
_generate_instagram_content(caption, trend_data, image_info) ==
    LET hashtags == instagram_hashtags(caption, trend_data)
        result == ("platform" :> "instagram")
                  @@ ("caption" :> caption)
                  @@ ("hashtags" :> hashtags)
                  @@ ("hashtag_string" :> JoinTags(hashtags))
                  @@ ("character_count" :> Len(caption))
                  @@ ("timestamp" :> Now)
                  @@ ("trend_source" :> Get(trend_data, "source", "unknown"))
                  @@ ("moderation_passed" :> TRUE)
    IN IF image_info # EmptyDict THEN Put(result, "image", image_info)
       ELSE Put(result, "warning", "No image provided; Instagram posts require images")

\* steps 4 and 5 of _generate_linkedin_content
_generate_linkedin_content(post_text, trend_data, image_info) ==
    LET result == ("platform" :> "linkedin")
                  @@ ("text" :> post_text)
                  @@ ("hashtags" :> linkedin_hashtags(post_text, trend_data))
                  @@ ("character_count" :> Len(post_text))
                  @@ ("timestamp" :> Now)
                  @@ ("trend_source" :> Get(trend_data, "source", "unknown"))
                  @@ ("moderation_passed" :> TRUE)
    IN IF image_info # EmptyDict THEN Put(result, "image", image_info) ELSE result

\* the post a platform's pipeline assembles from the generated text
AssemblePost(platform, text, trend_data, image_info) ==
    CASE platform = "twitter" -> _generate_twitter_content(text, trend_data, image_info)
      [] platform = "instagram" -> _generate_instagram_content(text, trend_data, image_info)
      [] platform = "linkedin" -> _generate_linkedin_content(text, trend_data, image_info)

\* the key of a post's primary text
PrimaryKey(platform) == IF platform = "instagram" THEN "caption" ELSE "text"

(***************************************************************************)
(* ImageGenerator                                                          *)
(***************************************************************************)
ImageMaxRetries == 3

\* the lookup falling back to the landscape size
_get_dimensions_from_aspect_ratio_Landscape(aspect_ratio) ==
    CASE aspect_ratio = "1:1" -> <<1024, 1024>>
      [] aspect_ratio = "16:9" -> <<1024, 576>>
      [] aspect_ratio = "4:5" -> <<768, 960>>
      [] aspect_ratio = "3:2" -> <<1024, 682>>
      [] aspect_ratio = "4:3" -> <<1024, 768>>
      [] OTHER -> <<1024, 576>>

_get_dimensions_from_aspect_ratio(aspect_ratio) ==
    CASE aspect_ratio = "1:1" -> <<1024, 1024>>
      [] aspect_ratio = "16:9" -> <<1024, 576>>
      [] aspect_ratio = "4:5" -> <<768, 960>>
      [] aspect_ratio = "3:2" -> <<1024, 682>>
      [] aspect_ratio = "4:3" -> <<1024, 768>>
      [] OTHER -> <<1024, 1024>>

\* the aspect ratios callers pass
AspectRatios == {"1:1", "16:9", "4:5", "3:2", "4:3", "21:9", "1.91:1"}

\* what one requests.post to the image endpoint comes to: a 200 response with
\* an artifact, a 200 response without one, a requests RequestException, a
\* response whose status is not 200
ImageOutcomes == {"ok", "no_artifacts", "network_error", "api_error"}

\* _process_image_response on a 200 response
_process_image_response(outcome, prompt, dims) ==
    IF outcome = "no_artifacts"
    THEN ("error" :> <<"No image artifacts found in response">>) @@ ("prompt" :> prompt)
    ELSE ("filename" :> "image.png") @@ ("filepath" :> "generated_images/image.png")
         @@ ("prompt" :> prompt) @@ ("seed" :> 0) @@ ("timestamp" :> Now)
         @@ ("saved" :> TRUE) @@ ("width" :> dims[1]) @@ ("height" :> dims[2])

\* the loop running one pass more
image_loop_guard_OneMore(retries) == retries <= ImageMaxRetries + 1

\* "while retries <= self.max_retries"
image_loop_guard(retries) == retries <= ImageMaxRetries

\* a handler that catches every exception: "except Exception" first
IsRetried_Any(outcome) == TRUE

\* "except requests.exceptions.RequestException": the errors the loop retries;
\* every other exception is raised again
IsRetried(outcome) == outcome = "network_error"

\* a linear backoff: wait_time = 2 * retries
Backoff_Linear(retries) == 2 * retries

\* wait_time = 2 ** retries
Backoff(retries) == 2 ^ retries

\* the descriptor returned when the loop ends without a response
ExhaustedDescriptor(prompt) ==
    ("error" :> <<"Failed after", ImageMaxRetries, "retries">>) @@ ("prompt" :> prompt)

(***************************************************************************)
(* TextGenerator                                                           *)
(***************************************************************************)
TextMaxRetries == 3

(***************************************************************************)
(* The brand profile store (brands.json) as the tools read it.             *)
(***************************************************************************)
BrandNames == {"Acme", "Nope"}

AcmeProfile == ("brand_name" :> "Acme") @@ ("product_features" :> ProductFeatures)

\* a second profile of the same brand, and the profile of another brand
RevisedProfile ==
    ("brand_name" :> "Acme")
    @@ ("product_features" :> <<[name |-> "n2", description |-> "d2"]>>)
BetaProfile == ("brand_name" :> "Beta") @@ ("product_features" :> <<>>)

\* the names and profiles save_brand_profile is called with
SaveInputs == {<<"Acme", AcmeProfile>>, <<"Acme", RevisedProfile>>,
               <<"Beta", BetaProfile>>}

\* the names get_brand_profile is asked for
GetNames == BrandNames \cup {"Beta"}

\* a JSON object as written in the file: its members, each a key and a value
RECURSIVE Members(_)
Members(d) ==
    IF DOMAIN d = {} THEN <<>>
    ELSE LET k == CHOOSE x \in DOMAIN d : TRUE
         IN <<<<k, d[k]>>>> \o Members([x \in DOMAIN d \ {k} |-> d[x]])

\* the object a list of members is read as: of two members with one key the
\* later one counts
FromMembers(members) ==
    [k \in {members[i][1] : i \in 1..Len(members)} |->
        LET last == CHOOSE i \in 1..Len(members) :
                        /\ members[i][1] = k
                        /\ \A j \in (i + 1)..Len(members) : members[j][1] # k
        IN members[last][2]]

\* json.dump(brands, f): the text of the file, the profiles written as
\* objects inside the object
json_dump(brands) ==
    Members([name \in DOMAIN brands |-> Members(brands[name])])

\* json.load(f)
json_load(text) ==
    LET outer == FromMembers(text)
    IN [name \in DOMAIN outer |-> FromMembers(outer[name])]

\* the file is absent, or holds the text of a mapping from brand names to
\* profiles; a text that is not complete (a write that did not come to its
\* end) is one json.load rejects
Stores == { [exists |-> FALSE, text |-> <<>>, complete |-> TRUE],
            [exists |-> TRUE, text |-> json_dump("Acme" :> AcmeProfile),
             complete |-> TRUE] }

\* open(path, "r") and json.load(f): the mapping, or the exception raised
Load(st) ==
    IF ~st.exists THEN [error |-> "FileNotFoundError", brands |-> EmptyDict]
    ELSE IF ~st.complete THEN [error |-> "JSONDecodeError", brands |-> EmptyDict]
    ELSE [error |-> "none", brands |-> json_load(st.text)]

\* func_get_brand_profile: the profile, or None; json.load's exception is
\* not caught
func_get_brand_profile(st, brand_name) ==
    IF ~st.exists THEN [found |-> FALSE, profile |-> EmptyDict, error |-> "none"]
    ELSE LET read == Load(st)
         IN IF read.error # "none"
            THEN [found |-> FALSE, profile |-> EmptyDict, error |-> read.error]
            ELSE IF brand_name \in DOMAIN read.brands
            THEN [found |-> TRUE, profile |-> read.brands[brand_name], error |-> "none"]
            ELSE [found |-> FALSE, profile |-> EmptyDict, error |-> "none"]

\* [brand_name for brand_name in brands]
Keys(d) == [i \in 1..Len(Members(d)) |-> Members(d)[i][1]]

\* get_brand_list: the names, or json.load's exception
get_brand_list(st) ==
    IF ~st.exists THEN [error |-> "none", names |-> <<>>]
    ELSE LET read == Load(st)
         IN IF read.error # "none" THEN [error |-> read.error, names |-> <<>>]
            ELSE [error |-> "none", names |-> Keys(read.brands)]

\* func_save_brand_profile up to "brands[brand_name] = brand_profile": the
\* mapping it goes on to write
UpdatedBrands(st, brand_name, brand_profile) ==
    LET read == Load(st)
        brands == IF read.error # "none" \/ DOMAIN read.brands = {}
                  THEN EmptyDict ELSE read.brands
    IN Put(brands, brand_name, brand_profile)

\* func_save_brand_profile without the brands the file already holds
func_save_brand_profile_Fresh(st, brand_name, brand_profile) ==
    [exists |-> TRUE, text |-> json_dump(Put(EmptyDict, brand_name, brand_profile)),
     complete |-> TRUE]

\* func_save_brand_profile: the file after the call
func_save_brand_profile(st, brand_name, brand_profile) ==
    [exists |-> TRUE,
     text |-> json_dump(UpdatedBrands(st, brand_name, brand_profile)),
     complete |-> TRUE]

\* the server processes that share the cache directory
Servers == {"s1", "s2"}

\* a server process with no save under way
Idle == [pc |-> "idle", brand_name |-> "", brands |-> EmptyDict]

(***************************************************************************)
(* State.                                                                  *)
(***************************************************************************)
VARIABLES
    image_generation_enabled, \* ContentCreator.image_generation_enabled and
                              \* ImageGenerator.enabled of the call's creator
    api_key,                  \* ImageGenerator.api_key is set (STABILITY_API_KEY)
    store,                    \* brands.json
    saved,                    \* the profile last passed to save_brand_profile
                              \* under each name
    writers,                  \* each server process's func_save_brand_profile:
                              \* where it stands, its brand_name, its brands
    faults,                   \* what has happened to the store so far: two
                              \* saves under way at a time, a write cut short
    call,                     \* the call in progress, or the last one: op and arguments
    pc,                       \* where the call stands: the external call it is about to make
    cur,                      \* locals of the running generate_content / generate_image
    tool,                     \* locals of the running draft_post_content
    queue,                    \* platforms generate_multi_platform_content has yet to do
    results,                  \* generate_multi_platform_content's results
    text_retries,             \* generate_text's retries
    text_attempts,            \* completion calls made by the running generate_text
    text_result,              \* what the last generate_text returned or raised
    image_retries,            \* generate_image's retries
    image_attempts,           \* requests made by the running generate_image
    waits,                    \* the time.sleep calls of the running generate_image
    log,                      \* the stages and external calls of the call, in order,
                              \* each with how it came out
    ended,                    \* the generate_content invocations of the call that
                              \* ended, in order: the platform, what it returned or raised
    result                    \* what the last finished call returned or raised

vars == <<image_generation_enabled, api_key, store, saved, writers, faults, call, pc, cur, tool, queue,
          results, text_retries, text_attempts, text_result, image_retries, image_attempts,
          waits, log, ended, result>>

\* the components a call runs on, as constructed for it
Construct(enabled, key) ==
    /\ image_generation_enabled' = enabled
    /\ api_key' = key

Init ==
    /\ image_generation_enabled = FALSE
    /\ api_key = FALSE
    /\ store \in Stores
    /\ saved = IF store.exists THEN ("Acme" :> AcmeProfile) ELSE EmptyDict
    /\ writers = [s \in Servers |-> Idle]
    /\ faults = [overlapped |-> FALSE, interrupted |-> FALSE]
    /\ call = ("op" :> "none")
    /\ pc = "idle"
    /\ cur = EmptyDict
    /\ tool = EmptyDict
    /\ queue = <<>>
    /\ results = EmptyDict
    /\ text_retries = 0
    /\ text_attempts = 0
    /\ text_result = NoResult
    /\ image_retries = 0
    /\ image_attempts = 0
    /\ waits = <<>>
    /\ log = <<>>
    /\ ended = <<>>
    /\ result = NoResult

(***************************************************************************)
(* ContentCreator.generate_content up to its first external call.          *)
(***************************************************************************)
\* locals of a platform's pipeline: the platform as passed, the platform it
\* dispatches to, the arguments, the creator's image_generation_enabled
\* the aspect_ratio a platform's pipeline calls generate_image with: twitter
\* passes none and gets the parameter's default, instagram "1:1", linkedin
\* "16:9"
PipelineAspectRatio(platform) ==
    CASE platform = "twitter" -> "1:1"
      [] platform = "instagram" -> "1:1"
      [] platform = "linkedin" -> "16:9"
      [] OTHER -> "1:1"

\* the ratios _get_dimensions_from_aspect_ratio has a branch for
KnownAspectRatios == {"1:1", "16:9", "4:5", "3:2", "4:3"}

Frame(platform, trend_data, product_info, enabled) ==
    [platform |-> platform, target |-> LowerName(platform),
     trend_data |-> trend_data, product_info |-> product_info,
     enabled |-> enabled,
     aspect_ratio |-> PipelineAspectRatio(LowerName(platform)),
     prompt |-> format_prompt(LowerName(platform), trend_data, product_info)]

\* "if platform.lower() not in [...]: raise ValueError"
IsSupported(platform) == LowerName(platform) \in {"twitter", "instagram", "linkedin"}

\* generate_content: the ValueError, or the pipeline stopped at its completion call
EnterPipeline(platform, trend_data, product_info, enabled, lg, en) ==
    IF ~IsSupported(platform)
    THEN [pc |-> "done", cur |-> EmptyDict, log |-> lg,
          result |-> Raised("ValueError", UnsupportedPlatform(platform)),
          ended |-> Append(en, [platform |-> platform,
                                outcome |-> Raised("ValueError",
                                                   UnsupportedPlatform(platform))])]
    ELSE [pc |-> "generate_text",
          cur |-> Frame(platform, trend_data, product_info, enabled),
          log |-> Append(lg, <<"BuildPrompt", "ok">>), result |-> NoResult,
          ended |-> en]

\* the stages with the hashtags taken before the image
StagesAfterText_HashtagsFirst(enabled) ==
    IF enabled
    THEN <<<<"ExtractHashtags", "ok">>, <<"BackfillHashtags", "ok">>,
           <<"GenerateImage", "failed">>>>
    ELSE <<<<"ExtractHashtags", "ok">>, <<"BackfillHashtags", "ok">>,
           <<"AssemblePost", "ok">>>>

\* the stages of a pipeline after its text, in the order of the code: "3.
\* Generate or select an image if enabled", which ends the pipeline at
\* format_image_prompt, or else "4. Extract hashtags ... or add them if
\* missing" and "5. Assemble the final content package"
StagesAfterText(enabled) ==
    IF enabled
    THEN <<<<"GenerateImage", "failed">>>>
    ELSE <<<<"ExtractHashtags", "ok">>, <<"BackfillHashtags", "ok">>,
           <<"AssemblePost", "ok">>>>

\* the backfill appending to the list trend_data holds
AppendsTo_Trend(platform) == "trend"

\* the list the name hashtags is bound to when the backfill runs
\* "hashtags.append(tag)": the one extract_hashtags built (unique_hashtags);
\* the twitter pipeline appends nothing, it rebinds hashtags to a slice
AppendsTo(platform) ==
    IF platform = "twitter" THEN "none" ELSE "extracted"

\* the caller's trend_data as the pipeline of a platform leaves it
TrendDataAfter(platform, text, trend_data) ==
    IF AppendsTo(platform) = "trend" /\ HasTrendHashtags(trend_data)
    THEN Put(trend_data, "hashtags",
             AssemblePost(platform, text, trend_data, EmptyDict)["hashtags"])
    ELSE trend_data

\* what the rest of a pipeline does with the generated text: with images
\* enabled it calls PlatformFormatter.format_image_prompt, which the class
\* does not define; otherwise it extracts the hashtags and assembles the post
AfterText(frame, generated_text) ==
    IF frame.enabled
    THEN Raised("AttributeError", <<"PlatformFormatter has no attribute", "format_image_prompt">>)
    ELSE Returned(AssemblePost(frame.target, generated_text, frame.trend_data, EmptyDict))

(***************************************************************************)
(* ContentCreator.generate_multi_platform_content: the loop.               *)
(***************************************************************************)
\* results[platform] for a generate_content that returned or raised
Entry(outcome) ==
    IF outcome.status = "returned" THEN outcome.value
    ELSE ErrorDict(outcome.value.message)

RECURSIVE RunLoop(_, _, _, _, _, _, _)
\* the for loop from the platforms left, up to the next completion call
RunLoop(platforms, rs, trend_data, product_info, enabled, lg, en) ==
    IF platforms = <<>>
    THEN [pc |-> "done", queue |-> <<>>, results |-> rs, cur |-> EmptyDict,
          log |-> lg, ended |-> en, result |-> Returned(rs)]
    ELSE LET e == EnterPipeline(Head(platforms), trend_data, product_info, enabled,
                                lg, en)
         IN IF e.pc = "done"
            THEN RunLoop(Tail(platforms), Put(rs, Head(platforms), Entry(e.result)),
                         trend_data, product_info, enabled, e.log, e.ended)
            ELSE [pc |-> e.pc, queue |-> Tail(platforms), results |-> rs,
                  cur |-> e.cur, log |-> e.log, ended |-> e.ended,
                  result |-> NoResult]

\* the loop without its try/except: an exception of generate_content escapes
Finished_Abort(frame, outcome, lg) ==
    LET en == Append(ended, [platform |-> frame.platform, outcome |-> outcome])
    IN IF call["op"] = "generate_multi_platform_content" /\ outcome.status = "returned"
       THEN RunLoop(queue, Put(results, frame.platform, Entry(outcome)),
                    frame.trend_data, frame.product_info, frame.enabled, lg, en)
       ELSE [pc |-> "done", queue |-> <<>>, results |-> EmptyDict, cur |-> frame,
             log |-> lg, ended |-> en, result |-> outcome]

\* the running generate_content ended, its arguments as it leaves them: its
\* caller goes on, the loop with the same trend_data and product_info objects
Finished(frame, outcome, lg) ==
    LET en == Append(ended, [platform |-> frame.platform, outcome |-> outcome])
    IN IF call["op"] = "generate_multi_platform_content"
       THEN RunLoop(queue, Put(results, frame.platform, Entry(outcome)),
                    frame.trend_data, frame.product_info, frame.enabled, lg, en)
       ELSE [pc |-> "done", queue |-> <<>>, results |-> EmptyDict, cur |-> frame,
             log |-> lg, ended |-> en, result |-> outcome]

\* the lists of platforms callers pass: the default, lists with an unsupported
\* platform first, last and alone, a platform twice, none
PlatformLists ==
    { <<"twitter", "instagram", "linkedin">>,
      <<"tiktok", "twitter">>,
      <<"instagram", "tiktok">>,
      <<"linkedin", "tiktok", "Twitter">>,
      <<"twitter", "twitter">>,
      <<"tiktok">>,
      <<"linkedin">>,
      <<>> }

(***************************************************************************)
(* Calls of ContentCreator.                                                *)
(***************************************************************************)
NoImageCall ==
    /\ image_retries' = 0
    /\ image_attempts' = 0
    /\ waits' = <<>>

NoTextCall ==
    /\ text_retries' = 0
    /\ text_attempts' = 0
    /\ text_result' = NoResult

Call_generate_content ==
    /\ pc = "idle"
    /\ \E trend_data \in TrendInputs \cup HashtagTrends, platform \in PlatformNames,
          enabled \in BOOLEAN :
          LET e == EnterPipeline(platform, trend_data, ProductFeatures, enabled,
                                 <<>>, <<>>)
          IN /\ Construct(enabled, TRUE)
             /\ call' = ("op" :> "generate_content") @@ ("platform" :> platform)
                        @@ ("trend_data" :> trend_data)
             /\ pc' = e.pc
             /\ cur' = e.cur
             /\ log' = e.log
             /\ ended' = e.ended
             /\ result' = e.result
    /\ tool' = EmptyDict
    /\ queue' = <<>>
    /\ results' = EmptyDict
    /\ NoTextCall
    /\ NoImageCall
    /\ UNCHANGED <<store, saved, writers, faults>>

Call_generate_multi_platform_content ==
    /\ pc = "idle"
    /\ \E trend_data \in TrendInputs, platforms \in PlatformLists, enabled \in BOOLEAN :
          LET r == RunLoop(platforms, EmptyDict, trend_data, ProductFeatures,
                           enabled, <<>>, <<>>)
          IN /\ Construct(enabled, TRUE)
             /\ call' = ("op" :> "generate_multi_platform_content")
                        @@ ("platforms" :> platforms) @@ ("trend_data" :> trend_data)
             /\ pc' = r.pc
             /\ cur' = r.cur
             /\ queue' = r.queue
             /\ results' = r.results
             /\ log' = r.log
             /\ ended' = r.ended
             /\ result' = r.result
    /\ tool' = EmptyDict
    /\ NoTextCall
    /\ NoImageCall
    /\ UNCHANGED <<store, saved, writers, faults>>

(***************************************************************************)
(* TextGenerator.generate_text: one pass of "while retries <=              *)
(* self.max_retries", which holds one chat.completions.create call, and    *)
(* what the pipeline does with the text until its next external call.      *)
(***************************************************************************)
Step_generate_text ==
    /\ pc = "generate_text"
    /\ text_retries <= TextMaxRetries
    /\ \E ok \in BOOLEAN :
          \E content \in IF ok THEN CompletionsOf(call["op"], cur.target) ELSE {<<>>},
             error \in IF ok THEN {"none"} ELSE CompletionErrors :
             LET generated == IF ok THEN Returned(Strip(content))
                              ELSE Raised(error, <<"completion failed">>)
                 outcome == IF ok THEN AfterText(cur, generated.value) ELSE generated
                 stages == IF ok THEN <<<<"complete", "ok">>>> \o StagesAfterText(cur.enabled)
                           ELSE <<<<"complete", "failed">>>>
                 frame == IF outcome.status = "returned"
                          THEN [cur EXCEPT !.trend_data =
                                   TrendDataAfter(cur.target, generated.value, @)]
                          ELSE cur
             IN \E f \in {Finished(frame, outcome, log \o stages)} :
                   /\ text_result' = IF f.pc = "generate_text" THEN NoResult ELSE generated
                   /\ text_attempts' = IF f.pc = "generate_text" THEN 0 ELSE text_attempts + 1
                   /\ pc' = f.pc
                   /\ cur' = f.cur
                   /\ queue' = f.queue
                   /\ results' = f.results
                   /\ log' = f.log
                   /\ ended' = f.ended
                   /\ result' = f.result
    /\ UNCHANGED <<text_retries, tool, call, image_retries, image_attempts, waits>>
    /\ UNCHANGED <<image_generation_enabled, api_key, store, saved, writers, faults>>

(***************************************************************************)
(* ImageGenerator.generate_image                                           *)
(***************************************************************************)
ImagePrompt == "image prompt"

\* the two checks with the credential looked at first
EarlyReturn_KeyFirst(enabled, key, prompt) ==
    IF ~key
    THEN ("error" :> <<"API key not configured">>) @@ ("prompt" :> prompt)
    ELSE IF ~enabled
    THEN ("status" :> "disabled") @@ ("prompt" :> prompt)
    ELSE EmptyDict

\* "if not self.enabled: return ...", "if not self.api_key: return ...": the
\* descriptor returned before any request, the empty dict when the call goes on
EarlyReturn(enabled, key, prompt) ==
    IF ~enabled
    THEN ("status" :> "disabled") @@ ("prompt" :> prompt)
    ELSE IF ~key
    THEN ("error" :> <<"API key not configured">>) @@ ("prompt" :> prompt)
    ELSE EmptyDict

\* the call up to its first request
Call_generate_image ==
    /\ pc = "idle"
    /\ \E aspect_ratio \in AspectRatios, enabled \in BOOLEAN, key \in BOOLEAN :
          /\ Construct(enabled, key)
          /\ call' = ("op" :> "generate_image") @@ ("prompt" :> ImagePrompt)
                     @@ ("aspect_ratio" :> aspect_ratio)
          /\ IF EarlyReturn(enabled, key, ImagePrompt) # EmptyDict
             THEN /\ pc' = "done"
                  /\ cur' = EmptyDict
                  /\ result' = Returned(EarlyReturn(enabled, key, ImagePrompt))
             ELSE /\ pc' = "generate_image"
                  /\ cur' = [prompt |-> ImagePrompt,
                             dims |-> _get_dimensions_from_aspect_ratio(aspect_ratio)]
                  /\ result' = NoResult
    /\ log' = <<>>
    /\ ended' = <<>>
    /\ tool' = EmptyDict
    /\ queue' = <<>>
    /\ results' = EmptyDict
    /\ NoTextCall
    /\ NoImageCall
    /\ UNCHANGED <<store, saved, writers, faults>>

\* one pass of "while retries <= self.max_retries": one requests.post, and the
\* sleep after a RequestException
Step_generate_image ==
    /\ pc = "generate_image"
    /\ image_loop_guard(image_retries)
    /\ \E outcome \in ImageOutcomes :
          /\ image_attempts' = image_attempts + 1
          /\ log' = Append(log, <<"image", outcome>>)
          /\ CASE outcome \in {"ok", "no_artifacts"} ->
                    /\ pc' = "done"
                    /\ result' = Returned(_process_image_response(outcome, cur.prompt, cur.dims))
                    /\ UNCHANGED <<image_retries, waits>>
               [] outcome \notin {"ok", "no_artifacts"} /\ IsRetried(outcome) ->
                    /\ image_retries' = image_retries + 1
                    /\ waits' = Append(waits, Backoff(image_retries + 1))
                    /\ IF image_loop_guard(image_retries + 1)
                       THEN /\ pc' = "generate_image"
                            /\ result' = NoResult
                       ELSE /\ pc' = "done"
                            /\ result' = Returned(ExhaustedDescriptor(cur.prompt))
               [] outcome \notin {"ok", "no_artifacts"} /\ ~IsRetried(outcome) ->
                    /\ pc' = "done"
                    /\ result' = Raised("Exception", <<"API error">>)
                    /\ UNCHANGED <<image_retries, waits>>
    /\ UNCHANGED <<call, cur, tool, queue, results, text_retries, text_attempts,
                   text_result, ended>>
    /\ UNCHANGED <<image_generation_enabled, api_key, store, saved, writers, faults>>

(***************************************************************************)
(* The draft_post_content tool.                                            *)
(***************************************************************************)
\* what crawl4ai_crawl comes to: the page's text, or an exception
CrawlOutcomes == {"page", "failed"}

\* cli.py lines 257 to 266 on the tool's locals: the request and the language
\* appended to data, "x" normalized, the creator made with images disabled,
\* brand_profile["product_features"] read, generate_content called
\* the test on the name as given
NormalizePlatform_CaseSensitive(platform) ==
    IF platform = "x" THEN "twitter" ELSE platform

\* "if platform.lower() == "x": platform = "twitter""
NormalizePlatform(platform) ==
    IF LowerName(platform) = "x" THEN "twitter" ELSE platform

Dispatch(t, lg) ==
    LET d1 == IF t.user_request # "" THEN Append(t.data, t.user_request) ELSE t.data
        data == IF t.language # "" THEN Append(d1, t.language) ELSE d1
        platform == NormalizePlatform(t.platform)
    IN IF ~t.brand_profile.found
       THEN [pc |-> "done", cur |-> EmptyDict, log |-> lg, ended |-> <<>>,
             result |-> Raised("TypeError", <<"'NoneType' object is not subscriptable">>)]
       ELSE IF "product_features" \notin DOMAIN t.brand_profile.profile
       THEN [pc |-> "done", cur |-> EmptyDict, log |-> lg, ended |-> <<>>,
             result |-> Raised("KeyError", <<"product_features">>)]
       ELSE EnterPipeline(platform, ("content" :> data),
                          t.brand_profile.profile["product_features"], FALSE, lg, <<>>)

\* the call up to its first external call
Call_draft_post_content ==
    /\ pc = "idle"
    /\ \E brand_name \in BrandNames, platform \in PlatformNames,
          n \in 0..MaxUrls, user_request \in {"", "promo"} :
          LET t == [brand_profile |-> func_get_brand_profile(store, brand_name),
                    platform |-> platform, urls |-> [i \in 1..n |-> "url"],
                    data |-> <<>>, user_request |-> user_request,
                    language |-> "English"]
              d == Dispatch(t, <<>>)
          IN /\ Construct(FALSE, TRUE)
             /\ call' = ("op" :> "draft_post_content") @@ ("brand_name" :> brand_name)
                        @@ ("platform" :> platform) @@ ("content_urls" :> t.urls)
             /\ tool' = t
             /\ IF t.brand_profile.error # "none"
                THEN /\ pc' = "done"
                     /\ cur' = EmptyDict
                     /\ log' = <<>>
                     /\ ended' = <<>>
                     /\ result' = Raised(t.brand_profile.error, <<"brands.json">>)
                ELSE IF n > 0
                THEN /\ pc' = "crawl"
                     /\ cur' = EmptyDict
                     /\ log' = <<>>
                     /\ ended' = <<>>
                     /\ result' = NoResult
                ELSE /\ pc' = d.pc
                     /\ cur' = d.cur
                     /\ log' = d.log
                     /\ ended' = d.ended
                     /\ result' = d.result
    /\ queue' = <<>>
    /\ results' = EmptyDict
    /\ NoTextCall
    /\ NoImageCall
    /\ UNCHANGED <<store, saved, writers, faults>>

\* one pass of "for content_url in content_urls": one crawl4ai_crawl
Step_crawl ==
    /\ pc = "crawl"
    /\ \E outcome \in CrawlOutcomes :
          LET t == [tool EXCEPT !.urls = Tail(@), !.data = Append(@, outcome)]
              lg == Append(log, <<"fetch", outcome>>)
              d == Dispatch(t, lg)
          IN IF outcome = "failed"
             THEN /\ pc' = "done"
                  /\ result' = Raised("Exception", <<"crawl failed">>)
                  /\ log' = lg
                  /\ UNCHANGED <<tool, cur, ended>>
             ELSE /\ tool' = t
                  /\ IF t.urls # <<>>
                     THEN /\ pc' = "crawl"
                          /\ log' = lg
                          /\ UNCHANGED <<cur, result, ended>>
                     ELSE /\ pc' = d.pc
                          /\ cur' = d.cur
                          /\ log' = d.log
                          /\ ended' = d.ended
                          /\ result' = d.result
    /\ UNCHANGED <<call, queue, results, text_retries, text_attempts, text_result,
                   image_retries, image_attempts, waits>>
    /\ UNCHANGED <<image_generation_enabled, api_key, store, saved, writers, faults>>

(***************************************************************************)
(* Calls of PlatformFormatter.                                             *)
(***************************************************************************)
\* lengths around every platform's max_length
FormatTexts ==
    {<<>>, TaggedText, PlainText, FourTags}
        \cup {LongText(platform_constraints[p].max_length + k) :
                 p \in Platforms, k \in (-1)..Over}
        \cup {TailTaggedText(platform_constraints[p].max_length + 1) : p \in Platforms}

\* the content dicts format_for_platform is given
FormatContents ==
    {EmptyDict}
        \cup {("text" :> t) : t \in FormatTexts}
        \cup {("caption" :> t) : t \in FormatTexts}
        \cup {("caption" :> <<>>) @@ ("text" :> t) : t \in FormatTexts}
        \cup {("text" :> t) @@ ("hashtags" :> <<Tag_a>>) : t \in FormatTexts}

NoPipeline ==
    /\ Construct(FALSE, FALSE)
    /\ pc' = "done"
    /\ cur' = EmptyDict
    /\ tool' = EmptyDict
    /\ queue' = <<>>
    /\ results' = EmptyDict
    /\ log' = <<>>
    /\ ended' = <<>>
    /\ NoTextCall
    /\ NoImageCall

Call_format_for_platform ==
    /\ pc = "idle"
    /\ \E content \in FormatContents, platform \in PlatformNames :
          /\ call' = ("op" :> "format_for_platform") @@ ("content" :> content)
                     @@ ("platform" :> platform)
          /\ result' = Returned(format_for_platform(content, platform))
    /\ NoPipeline
    /\ UNCHANGED <<store, saved, writers, faults>>

Lookups == {"get_image_aspect_ratio", "get_max_hashtags", "get_max_length"}

Lookup(name, platform) ==
    CASE name = "get_image_aspect_ratio" -> get_image_aspect_ratio(platform)
      [] name = "get_max_hashtags" -> get_max_hashtags(platform)
      [] name = "get_max_length" -> get_max_length(platform)

\* the value a lookup returns, an integer or a string, held under the
\* lookup's name
Answer(name, v) == (name :> v)

Call_lookup ==
    /\ pc = "idle"
    /\ \E name \in Lookups, platform \in PlatformNames :
          /\ call' = ("op" :> name) @@ ("platform" :> platform)
          /\ result' = Returned(Answer(name, Lookup(name, platform)))
    /\ NoPipeline
    /\ UNCHANGED <<store, saved, writers, faults>>

\* "Loving #AI and #ai and #ML"
LovingText ==
    <<"L", "o", "v", "i", "n", "g", " ", "#", "A", "I", " ", "a", "n", "d", " ",
      "#", "a", "i", " ", "a", "n", "d", " ", "#", "M", "L">>

\* "##a#b_1 #": a '#' before a '#', a tag right after a tag, a '#' at the end
DenseText == <<"#", "#", "a", "#", "b", "_", "1", " ", "#">>

\* the texts extract_hashtags is given
ExtractTexts ==
    {<<>>, PlainText, TaggedText, ThreeTags, FiveTags, LovingText, DenseText}

Call_extract_hashtags ==
    /\ pc = "idle"
    /\ \E text \in ExtractTexts :
          /\ call' = ("op" :> "extract_hashtags") @@ ("text" :> text)
          /\ result' = Returned(Answer("extract_hashtags", extract_hashtags(text)))
    /\ NoPipeline
    /\ UNCHANGED <<store, saved, writers, faults>>

Tag_DATA == <<"D", "A", "T", "A">>

\* the tag lists _filter_professional_hashtags is given
FilterInputs ==
    {<<>>, <<Tag_funny>>, <<Tag_funny, Tag_party>>,
     <<Tag_funny, Tag_techinnovation, Tag_party>>,
     <<Tag_DATA, Tag_funny>>,
     <<Tag_techinnovation, Tag_funny, Tag_DATA, Tag_techinnovation>>,
     LongTrend}

Call_filter_professional_hashtags ==
    /\ pc = "idle"
    /\ \E hashtags \in FilterInputs :
          /\ call' = ("op" :> "_filter_professional_hashtags")
                     @@ ("hashtags" :> hashtags)
          /\ result' = Returned(Answer("_filter_professional_hashtags",
                                       _filter_professional_hashtags(hashtags)))
    /\ NoPipeline
    /\ UNCHANGED <<store, saved, writers, faults>>

(***************************************************************************)
(* The brand profile tools.                                                *)
(***************************************************************************)
Call_save_brand_profile ==
    /\ pc = "idle"
    /\ \E input \in SaveInputs :
          /\ call' = ("op" :> "save_brand_profile") @@ ("brand_name" :> input[1])
          /\ store' = func_save_brand_profile(store, input[1], input[2])
          /\ saved' = Put(saved, input[1], input[2])
    /\ result' = Returned("status" :> "success")
    /\ NoPipeline
    /\ UNCHANGED <<writers, faults>>

Call_get_brand_profile ==
    /\ pc = "idle"
    /\ \E brand_name \in GetNames :
          /\ call' = ("op" :> "get_brand_profile") @@ ("brand_name" :> brand_name)
          /\ result' = LET got == func_get_brand_profile(store, brand_name)
                        IN IF got.error # "none"
                           THEN Raised(got.error, <<"brands.json">>)
                           ELSE Returned(got)
    /\ NoPipeline
    /\ UNCHANGED <<store, saved, writers, faults>>

Call_get_brand_list ==
    /\ pc = "idle"
    /\ call' = ("op" :> "get_brand_list")
    /\ result' = LET got == get_brand_list(store)
                 IN IF got.error # "none"
                    THEN Raised(got.error, <<"brands.json">>)
                    ELSE Returned(Answer("get_brand_list", got.names))
    /\ NoPipeline
    /\ UNCHANGED <<store, saved, writers, faults>>

(***************************************************************************)
(* func_save_brand_profile step by step, in server processes that share    *)
(* the cache directory: the read, open(path, "w"), json.dump. A process    *)
(* may end between the last two.                                           *)
(***************************************************************************)
CallVars ==
    <<image_generation_enabled, api_key, call, pc, cur, tool, queue, results,
      text_retries, text_attempts, text_result, image_retries, image_attempts,
      waits, log, ended, result>>

\* the callers' convention: no two saves under one name at a time
Serialized(s, brand_name) ==
    \A o \in Servers \ {s} :
        writers[o].pc = "idle" \/ writers[o].brand_name # brand_name

\* "try: ... brands = json.load(f) except: pass", "if not brands: brands = {}",
\* "brands[brand_name] = brand_profile"
Save_read(s) ==
    /\ writers[s].pc = "idle"
    /\ \E input \in SaveInputs :
          /\ Serialized(s, input[1])
          /\ writers' = [writers EXCEPT ![s] =
                 [pc |-> "read", brand_name |-> input[1],
                  brands |-> UpdatedBrands(store, input[1], input[2])]]
    /\ faults' = [faults EXCEPT !.overlapped =
                     @ \/ \E o \in Servers \ {s} : writers[o].pc # "idle"]
    /\ UNCHANGED <<store, saved>>
    /\ UNCHANGED CallVars

\* open(brands_data_path, "w"): the file is there and empty
Save_open(s) ==
    /\ writers[s].pc = "read"
    /\ writers' = [writers EXCEPT ![s].pc = "opened"]
    /\ store' = [exists |-> TRUE, text |-> <<>>, complete |-> FALSE]
    /\ UNCHANGED <<saved, faults>>
    /\ UNCHANGED CallVars

\* json.dump(brands, f), the file closed, {"status": "success"} returned
Save_dump(s) ==
    /\ writers[s].pc = "opened"
    /\ writers' = [writers EXCEPT ![s] = Idle]
    /\ store' = [exists |-> TRUE, text |-> json_dump(writers[s].brands),
                 complete |-> TRUE]
    /\ saved' = Put(saved, writers[s].brand_name,
                    writers[s].brands[writers[s].brand_name])
    /\ UNCHANGED faults
    /\ UNCHANGED CallVars

\* the process ends while json.dump writes: the members are in the file, the
\* end of the text is not
Save_interrupted(s) ==
    /\ writers[s].pc = "opened"
    /\ ~faults.interrupted
    /\ writers' = [writers EXCEPT ![s] = Idle]
    /\ store' = [exists |-> TRUE, text |-> json_dump(writers[s].brands),
                 complete |-> FALSE]
    /\ faults' = [faults EXCEPT !.interrupted = TRUE]
    /\ UNCHANGED saved
    /\ UNCHANGED CallVars

(***************************************************************************)
(* BrandGuidelinesManager: the accessors. A value of a profile is written  *)
(* by where it comes from: "own" for the profile's value, "default" for    *)
(* the value of the default profile, "empty" for the {} or [] an accessor  *)
(* passes to dict.get.                                                     *)
(***************************************************************************)
Sections ==
    {"voice", "content_requirements", "prohibited_content", "visual_style",
     "product_mentions", "target_audience", "product_features"}

GuidelinePlatforms == {"twitter", "instagram", "linkedin"}

\* _get_default_guidelines: every section, and every platform under "platforms"
_get_default_guidelines ==
    [k \in Sections \cup {"brand_name"} |-> "default"]
    @@ ("platforms" :> [p \in GuidelinePlatforms |-> "default"])

\* a profile with every section and platform
FullGuidelines ==
    [k \in Sections \cup {"brand_name"} |-> "own"]
    @@ ("platforms" :> [p \in GuidelinePlatforms |-> "own"])

\* the guidelines a manager is constructed with: None, {}, a complete profile,
\* a profile with two sections only, a profile whose "platforms" has twitter
\* only
GuidelineInputs ==
    { [given |-> FALSE, profile |-> EmptyDict],
      [given |-> TRUE, profile |-> EmptyDict],
      [given |-> TRUE, profile |-> FullGuidelines],
      [given |-> TRUE, profile |-> ("brand_name" :> "own") @@ ("voice" :> "own")],
      [given |-> TRUE, profile |-> ("brand_name" :> "own")
                                   @@ ("product_features" :> "own")
                                   @@ ("platforms" :> ("twitter" :> "own"))] }

\* "if not self.guidelines": None and {} are falsy
NoGuidelines(g) == ~g.given \/ DOMAIN g.profile = {}

\* get_guidelines
get_guidelines(g) ==
    IF NoGuidelines(g) THEN _get_default_guidelines ELSE g.profile

\* get_brand_voice, get_content_requirements, get_prohibited_content,
\* get_visual_style, get_product_mentions, get_target_audience,
\* get_product_features: each with its own section and {} or []
get_section(g, section) ==
    IF NoGuidelines(g) THEN Get(_get_default_guidelines, section, "empty")
    ELSE Get(g.profile, section, "empty")

\* get_platform_guidelines
get_platform_guidelines(g, platform) ==
    IF NoGuidelines(g) \/ "platforms" \notin DOMAIN g.profile
    THEN Get(_get_default_guidelines["platforms"], LowerName(platform), "empty")
    ELSE Get(g.profile["platforms"], LowerName(platform), "empty")

Call_get_section ==
    /\ pc = "idle"
    /\ \E g \in GuidelineInputs, section \in Sections :
          /\ call' = ("op" :> "get_section") @@ ("guidelines" :> g)
                     @@ ("section" :> section)
          /\ result' = Returned(Answer("get_section", get_section(g, section)))
    /\ NoPipeline
    /\ UNCHANGED <<store, saved, writers, faults>>

Call_get_platform_guidelines ==
    /\ pc = "idle"
    /\ \E g \in GuidelineInputs, platform \in GuidelinePlatforms \cup {"Twitter"} :
          /\ call' = ("op" :> "get_platform_guidelines") @@ ("guidelines" :> g)
                     @@ ("platform" :> platform)
          /\ result' = Returned(Answer("get_platform_guidelines",
                                       get_platform_guidelines(g, platform)))
    /\ NoPipeline
    /\ UNCHANGED <<store, saved, writers, faults>>

Call_get_guidelines ==
    /\ pc = "idle"
    /\ \E g \in GuidelineInputs :
          /\ call' = ("op" :> "get_guidelines") @@ ("guidelines" :> g)
          /\ result' = Returned(Answer("get_guidelines", get_guidelines(g)))
    /\ NoPipeline
    /\ UNCHANGED <<store, saved, writers, faults>>

(***************************************************************************)
(* The caller takes the result of the finished call; nothing of the call   *)
(* is kept: its locals and its components are gone, the store stays.       *)
(***************************************************************************)
Return ==
    /\ pc = "done"
    /\ pc' = "idle"
    /\ Construct(FALSE, FALSE)
    /\ call' = ("op" :> "none")
    /\ cur' = EmptyDict
    /\ tool' = EmptyDict
    /\ queue' = <<>>
    /\ results' = EmptyDict
    /\ log' = <<>>
    /\ ended' = <<>>
    /\ result' = NoResult
    /\ NoTextCall
    /\ NoImageCall
    /\ UNCHANGED <<store, saved, writers, faults>>

(***************************************************************************)
(* The specification.                                                      *)
(***************************************************************************)
Next ==
    \/ Call_generate_content
    \/ Call_generate_multi_platform_content
    \/ Step_generate_text
    \/ Call_generate_image
    \/ Step_generate_image
    \/ Call_draft_post_content
    \/ Step_crawl
    \/ Call_format_for_platform
    \/ Call_lookup
    \/ Call_extract_hashtags
    \/ Call_filter_professional_hashtags
    \/ Call_save_brand_profile
    \/ Call_get_brand_profile
    \/ Call_get_brand_list
    \/ Call_get_section
    \/ Call_get_platform_guidelines
    \/ Call_get_guidelines
    \/ Return

Spec == Init /\ [][Next]_vars

\* the brand profile tools with the saves of two server processes step by step
StoreNext ==
    \/ \E s \in Servers : Save_read(s)
    \/ \E s \in Servers : Save_open(s)
    \/ \E s \in Servers : Save_dump(s)
    \/ \E s \in Servers : Save_interrupted(s)
    \/ Call_get_brand_profile
    \/ Call_get_brand_list
    \/ Return

StoreSpec == Init /\ [][StoreNext]_vars

\* a call under way makes its next step: the program runs one call at a time
\* and each external call comes back
FairSpec == Spec /\ WF_vars(Step_generate_text) /\ WF_vars(Step_generate_image)
                 /\ WF_vars(Step_crawl)

(***************************************************************************)
(* Properties.                                                             *)
(***************************************************************************)
Done(op) == pc = "done" /\ call["op"] = op

Range(list) == {list[i] : i \in 1..Len(list)}

\* the external calls among the log's events
NetworkCalls == {"fetch", "complete", "image"}

\* C1: every post generate_content returns has a primary text (text, or
\* caption for instagram) no longer than its platform's max_length
C1_PostWithinMaxLength ==
    (Done("generate_content") /\ result.status = "returned")
        => LET post == result.value
           IN Len(post[PrimaryKey(post["platform"])])
                  <= platform_constraints[post["platform"]].max_length

\* the primary text format_for_platform reads from its argument
C2_InputText(content, platform) ==
    IF platform = "instagram"
    THEN IF Get(content, "caption", <<>>) = <<>> /\ "text" \in DOMAIN content
         THEN content["text"]
         ELSE Get(content, "caption", <<>>)
    ELSE Get(content, "text", <<>>)

\* C2: format_for_platform's primary text is never longer than max_length; a
\* longer input comes out as its first max_length - 3 characters and "...",
\* max_length characters in all; an input that is not longer is unchanged
C2_FormatTruncates ==
    (Done("format_for_platform") /\ call["platform"] \in Platforms)
        => LET platform == call["platform"]
               key == PrimaryKey(platform)
               max == platform_constraints[platform].max_length
               input == C2_InputText(call["content"], platform)
               out == result.value
           IN /\ result.status = "returned"
              /\ key \in DOMAIN out => Len(out[key]) <= max
              /\ Len(input) > max
                    => /\ key \in DOMAIN out
                       /\ out[key] = SubSeq(input, 1, max - 3) \o <<".", ".", ".">>
                       /\ Len(out[key]) = max
              /\ Len(input) <= max
                    => IF key \in DOMAIN out THEN out[key] = input
                       ELSE key \notin DOMAIN call["content"]

C2_Witness ==
    /\ Done("format_for_platform")
    /\ call["platform"] = "twitter"
    /\ "text" \in DOMAIN call["content"]
    /\ Len(call["content"]["text"]) > 280
    /\ Len(result.value["text"]) = 280

\* C3: generate_multi_platform_content runs every requested platform's
\* pipeline, in order, whatever the earlier ones came to; it returns a mapping
\* with an entry for every requested platform: {error} with the message of
\* the exception for a pipeline that raised, the post for one that returned
C3_FailuresAreIsolated ==
    Done("generate_multi_platform_content")
        => LET platforms == call["platforms"]
           IN /\ result.status = "returned"
              /\ DOMAIN result.value = Range(platforms)
              /\ Len(ended) = Len(platforms)
              /\ \A i \in 1..Len(platforms) :
                    /\ ended[i].platform = platforms[i]
                    /\ (\A j \in (i + 1)..Len(platforms) : platforms[j] # platforms[i])
                          => LET entry == result.value[platforms[i]]
                                 outcome == ended[i].outcome
                             IN IF outcome.status = "raised"
                                THEN /\ DOMAIN entry = {"error"}
                                     /\ entry["error"] = outcome.value.message
                                ELSE entry = outcome.value

C3_Witness ==
    /\ Done("generate_multi_platform_content")
    /\ \E i, j, k \in 1..Len(ended) :
          /\ i < j
          /\ ended[i].outcome.status = "raised"
          /\ ended[i].outcome.value.type \in CompletionErrors
          /\ ended[j].outcome.status = "returned"
          /\ ended[k].outcome.status = "raised"
          /\ ended[k].outcome.value.type = "ValueError"
    /\ result.status = "returned"

\* the calls that take a platform name
C4_Ops == {"generate_content", "format_for_platform"} \cup Lookups

\* C4 as claimed: every operation that takes a platform name rejects a platform
\* outside {twitter, instagram, linkedin}: it raises or returns an {error}
C4_EveryOperationRejects ==
    (pc = "done" /\ call["op"] \in C4_Ops /\ LowerName(call["platform"]) \notin Platforms)
        => IF call["op"] \in Lookups
           THEN result.status = "raised"
           ELSE result.status = "raised" \/ "error" \in DOMAIN result.value

\* C4 as amended: generate_content raises ValueError for a platform whose
\* lower-cased name is not supported, format_for_platform returns an {error}
\* for a name that is not supported; the lookups return their defaults
C4_RejectsOrDefaults ==
    (pc = "done" /\ call["op"] \in C4_Ops)
        => LET platform == call["platform"]
           IN CASE call["op"] = "generate_content" ->
                     LowerName(platform) \notin {"twitter", "instagram", "linkedin"}
                        => /\ result.status = "raised"
                           /\ result.value.type = "ValueError"
                           /\ log = <<>>
                [] call["op"] = "format_for_platform" ->
                     platform \notin {"twitter", "instagram", "linkedin"}
                        => /\ result.status = "returned"
                           /\ DOMAIN result.value = {"error"}
                [] call["op"] = "get_max_length" ->
                     platform \notin {"twitter", "instagram", "linkedin"}
                        => result = Returned(("get_max_length" :> 280))
                [] call["op"] = "get_max_hashtags" ->
                     platform \notin {"twitter", "instagram", "linkedin"}
                        => result = Returned(("get_max_hashtags" :> 3))
                [] call["op"] = "get_image_aspect_ratio" ->
                     platform \notin {"twitter", "instagram", "linkedin"}
                        => result = Returned(("get_image_aspect_ratio" :> "1:1"))

C4_Witness ==
    /\ Done("get_max_length")
    /\ call["platform"] = "tiktok"
    /\ result = Returned(("get_max_length" :> 280))

\* C5: a request for an unsupported platform, through generate_content or
\* through draft_post_content, ends in the unsupported-platform error with no
\* external call made before it
C5_UnsupportedFailsBeforeNetwork ==
    (/\ pc = "done"
     /\ call["op"] \in {"generate_content", "draft_post_content"}
     /\ result.status = "raised"
     /\ result.value.type = "ValueError")
        => \A i \in 1..Len(log) : log[i][1] \notin NetworkCalls

\* C6: generate_text fails on a transient error only once the retries are
\* used up: it has then called the completion endpoint more than max_retries
\* times
C6_TextRetriesTransient ==
    (text_result.status = "raised" /\ text_result.value.type = "APIConnectionError")
        => text_attempts > TextMaxRetries

\* every request of the running generate_image met a network error
C7_AllNetworkErrors ==
    /\ log # <<>>
    /\ \A i \in 1..Len(log) : log[i] = <<"image", "network_error">>

C7_Backoff ==
    call["op"] = "generate_image"
        => /\ \A k \in 1..Len(waits) : waits[k] = 2 ^ k
           /\ (pc = "generate_image" /\ log # <<>>)
                 => /\ C7_AllNetworkErrors
                    /\ Len(log) <= ImageMaxRetries
                    /\ Len(waits) = Len(log)
           /\ (pc = "done" /\ C7_AllNetworkErrors)
                 => /\ result.status = "returned"
                    /\ DOMAIN result.value = {"error", "prompt"}
                    /\ Len(log) = ImageMaxRetries + 1
                    /\ Len(waits) = Len(log)

\* C7: generate_image, every request failing with a network error, waits 2^k
\* seconds after the k-th failure, retries max_retries times, then returns an
\* {error, prompt} descriptor; it does not raise and it ends
C7_RetriesThenErrorDescriptor ==
    [](C7_Backoff /\ (pc = "generate_image" => <>(pc = "done")))

C7_Witness ==
    /\ Done("generate_image")
    /\ C7_AllNetworkErrors
    /\ waits = <<2, 4, 8, 16>>
    /\ "error" \in DOMAIN result.value

\* C8 as claimed: no generate_image or generate_text makes more than 3 attempts
C8_AtMostThreeAttempts ==
    image_attempts <= 3 /\ text_attempts <= 3

\* C8 as amended: no generate_image or generate_text makes more than
\* max_retries + 1 = 4 attempts
C8_AtMostFourAttempts ==
    /\ image_attempts <= 4
    /\ text_attempts <= 4
    /\ call["op"] = "generate_image" => image_attempts = Len(log)

C8_Witness ==
    /\ call["op"] = "generate_image"
    /\ image_attempts = 4
    /\ Len(log) = 4

\* C9: in generate_image an error that is no network error ends the call: it
\* is raised, no request and no wait follows it
C9_ApiErrorNotRetried ==
    call["op"] = "generate_image"
        => \A i \in 1..Len(log) :
              log[i] = <<"image", "api_error">>
                 => /\ i = Len(log)
                    /\ pc = "done"
                    /\ result.status = "raised"
                    /\ Len(waits) = i - 1
                    /\ image_retries = i - 1

C9_Witness ==
    /\ Done("generate_image")
    /\ Len(log) > 1
    /\ log[Len(log)] = <<"image", "api_error">>
    /\ result.status = "raised"

\* C10: with image generation enabled, generate_content returns the post once
\* the text is generated, whatever the image client comes to; an Instagram
\* post without image carries a warning
C10_ImageFailureKeepsPost ==
    (/\ Done("generate_content")
     /\ image_generation_enabled
     /\ text_result.status = "returned")
        => /\ result.status = "returned"
           /\ PrimaryKey(cur.target) \in DOMAIN result.value
           /\ (cur.target = "instagram" /\ "image" \notin DOMAIN result.value)
                 => "warning" \in DOMAIN result.value

\* the posts the generate_content invocations of the call returned
ReturnedPosts(platform) ==
    {ended[i].outcome.value : i \in {j \in 1..Len(ended) :
         /\ ended[j].outcome.status = "returned"
         /\ ended[j].outcome.value["platform"] = platform}}

\* C11: every Instagram post generate_content returns has an image or a
\* warning, and the fields platform, caption, hashtags, character_count,
\* timestamp, trend_source and moderation_passed
C11_InstagramImageOrWarning ==
    \A post \in ReturnedPosts("instagram") :
        /\ {"platform", "caption", "hashtags", "character_count", "timestamp",
            "trend_source", "moderation_passed"} \subseteq DOMAIN post
        /\ "image" \in DOMAIN post \/ "warning" \in DOMAIN post

C11_Witness ==
    /\ Done("generate_content")
    /\ ~image_generation_enabled
    /\ result.status = "returned"
    /\ result.value["platform"] = "instagram"
    /\ "warning" \in DOMAIN result.value
    /\ "image" \notin DOMAIN result.value

\* C18: generate_image makes no request when image generation is disabled and
\* returns {status: "disabled", prompt}; it makes none when the credential is
\* missing and returns {error, prompt}; disabled comes first
C18_NoRequestWhenDisabledOrNoKey ==
    (call["op"] = "generate_image" /\ (~image_generation_enabled \/ ~api_key))
        => /\ pc = "done"
           /\ log = <<>>
           /\ image_attempts = 0
           /\ waits = <<>>
           /\ result.status = "returned"
           /\ result.value["prompt"] = call["prompt"]
           /\ IF ~image_generation_enabled
              THEN /\ DOMAIN result.value = {"status", "prompt"}
                   /\ result.value["status"] = "disabled"
              ELSE DOMAIN result.value = {"error", "prompt"}

C18_Witness ==
    /\ Done("generate_image")
    /\ ~image_generation_enabled
    /\ ~api_key
    /\ result.status = "returned"
    /\ result.value["status"] = "disabled"

\* the table of the aspect ratios with a size of their own
C19_Table ==
    ("1:1" :> <<1024, 1024>>) @@ ("16:9" :> <<1024, 576>>) @@ ("4:5" :> <<768, 960>>)
        @@ ("3:2" :> <<1024, 682>>) @@ ("4:3" :> <<1024, 768>>)

\* C19: the size generate_image asks for is the one of the table for 1:1,
\* 16:9, 4:5, 3:2 and 4:3 and 1024x1024 for every other aspect ratio
C19_AspectRatioLookup ==
    (call["op"] = "generate_image" /\ image_generation_enabled /\ api_key)
        => /\ "dims" \in DOMAIN cur
           /\ cur["dims"] = IF call["aspect_ratio"] \in DOMAIN C19_Table
                            THEN C19_Table[call["aspect_ratio"]]
                            ELSE <<1024, 1024>>
           /\ (pc = "done" /\ result.status = "returned" /\ "width" \in DOMAIN result.value)
                 => <<result.value["width"], result.value["height"]>> = cur["dims"]

C19_Witness ==
    /\ Done("generate_image")
    /\ call["aspect_ratio"] = "21:9"
    /\ result.status = "returned"
    /\ "width" \in DOMAIN result.value
    /\ result.value["width"] = 1024
    /\ result.value["height"] = 1024

\* the elements of list at the indices in idx, in the order of list
Pick(list, idx) ==
    [k \in 1..Cardinality(idx) |->
        list[CHOOSE i \in idx : Cardinality({j \in idx : j < i}) = k - 1]]

NoDuplicates(list) ==
    \A j, k \in 1..Len(list) : j # k => list[j] # list[k]

\* C12: the hashtags of every post generate_content returns are pairwise
\* distinct and none starts with '#'
C12_HashtagsDistinctUnprefixed ==
    \A i \in 1..Len(ended) :
        ended[i].outcome.status = "returned"
            => LET hashtags == ended[i].outcome.value["hashtags"]
               IN /\ NoDuplicates(hashtags)
                  /\ \A j \in 1..Len(hashtags) :
                        hashtags[j] # <<>> => Head(hashtags[j]) # "#"

\* where a hashtag starts in text: a '#' with a word character after it
C13_Starts(text) ==
    {i \in 1..(Len(text) - 1) : text[i] = "#" /\ text[i + 1] \in WordChars}

\* the word characters after the '#' at i, as far as they run
C13_Run(text, i) ==
    LET ends == {e \in (i + 1)..Len(text) : \A k \in (i + 1)..e : text[k] \in WordChars}
    IN SubSeq(text, i + 1, CHOOSE e \in ends : \A f \in ends : f <= e)

C13_First(text, tag) ==
    CHOOSE i \in C13_Starts(text) :
        /\ C13_Run(text, i) = tag
        /\ \A j \in C13_Starts(text) : C13_Run(text, j) = tag => i <= j

\* C13: extract_hashtags returns the runs of word characters that follow a
\* '#', each once, in the order of their first occurrence, told apart by
\* case: "Loving #AI and #ai and #ML" gives AI, ai, ML
C13_ExtractHashtags ==
    Done("extract_hashtags")
        => LET text == call["text"]
               tags == result.value["extract_hashtags"]
           IN /\ result.status = "returned"
              /\ {tags[k] : k \in 1..Len(tags)}
                    = {C13_Run(text, i) : i \in C13_Starts(text)}
              /\ NoDuplicates(tags)
              /\ \A j, k \in 1..Len(tags) :
                    j < k => C13_First(text, tags[j]) < C13_First(text, tags[k])
              /\ text = LovingText
                    => tags = <<<<"A", "I">>, <<"a", "i">>, <<"M", "L">>>>

C13_Witness ==
    /\ Done("extract_hashtags")
    /\ call["text"] = LovingText
    /\ Len(result.value["extract_hashtags"]) = 3

\* the lower-cased tag holds one of the indicators
C17_Matches(tag) ==
    \E indicator \in professional_indicators :
        \E o \in 1..(Len(tag) - Len(indicator) + 1) :
            \A k \in 1..Len(indicator) : LowerChar(tag[o + k - 1]) = indicator[k]

\* C17: _filter_professional_hashtags returns, in the order of its argument,
\* the tags that hold an indicator; when there is none, the first 4 tags of
\* its argument; the result is empty only for an empty argument
C17_FilterProfessional ==
    Done("_filter_professional_hashtags")
        => LET hashtags == call["hashtags"]
               out == result.value["_filter_professional_hashtags"]
               matching == {i \in 1..Len(hashtags) : C17_Matches(hashtags[i])}
           IN /\ result.status = "returned"
              /\ out = IF matching # {}
                       THEN Pick(hashtags, matching)
                       ELSE Pick(hashtags, {i \in 1..Len(hashtags) : i <= 4})
              /\ hashtags # <<>> => out # <<>>

C17_Witness ==
    /\ Done("_filter_professional_hashtags")
    /\ call["hashtags"] = <<Tag_DATA, Tag_funny>>
    /\ result.value["_filter_professional_hashtags"] = <<Tag_DATA>>

\* a post generate_content, called on its own, returned for platform
PostOf(platform) ==
    /\ Done("generate_content")
    /\ result.status = "returned"
    /\ result.value["platform"] = platform

TrendTags == Get(call["trend_data"], "hashtags", <<>>)

\* the candidates not among the tags, each once, in the order of candidates
Fresh(tags, candidates) ==
    Pick(candidates, {i \in 1..Len(candidates) :
                         /\ \A k \in 1..Len(tags) : tags[k] # candidates[i]
                         /\ \A j \in 1..(i - 1) : candidates[j] # candidates[i]})

\* tags, then the fresh candidates as far as the list stays within limit
TopUp(tags, candidates, limit) ==
    LET fresh == Fresh(tags, candidates)
        room == limit - Len(tags)
    IN tags \o SubSeq(fresh, 1, IF Len(fresh) < room THEN Len(fresh) ELSE room)

\* C14: a twitter post's hashtags are the first 2 trend hashtags (all of them
\* if fewer) when the text has no hashtag and the trend source has some, and
\* the hashtags of the text otherwise
C14_TwitterBackfill ==
    PostOf("twitter")
        => LET extracted == extract_hashtags(result.value["text"])
               hashtags == result.value["hashtags"]
           IN IF extracted = <<>> /\ TrendTags # <<>>
              THEN hashtags = SubSeq(TrendTags, 1,
                                     IF Len(TrendTags) < 2 THEN Len(TrendTags) ELSE 2)
              ELSE hashtags = extracted

C14_Witness ==
    /\ PostOf("twitter")
    /\ result.value["text"] = PlainText
    /\ TrendTags = <<Tag_a, Tag_b, Tag_c>>
    /\ result.value["hashtags"] = <<Tag_a, Tag_b>>

\* C15: an instagram post with fewer than 5 hashtags in its caption has them
\* followed by the trend hashtags not yet in the list, in trend order, up to
\* 10 in all; with 5 or more it has the hashtags of the caption
C15_InstagramBackfill ==
    PostOf("instagram")
        => LET extracted == extract_hashtags(result.value["caption"])
               hashtags == result.value["hashtags"]
           IN IF Len(extracted) < 5
              THEN /\ hashtags = TopUp(extracted, TrendTags, 10)
                   /\ SubSeq(hashtags, 1, Len(extracted)) = extracted
                   /\ Len(hashtags) <= 10
              ELSE hashtags = extracted

C15_Witness ==
    /\ PostOf("instagram")
    /\ result.value["caption"] = FourTags
    /\ TrendTags = LongTrend
    /\ Len(result.value["hashtags"]) = 10

\* C16: a linkedin post with fewer than 3 hashtags in its text has them
\* followed by the candidates (the professional trend hashtags, or the
\* fallback) not yet in the list, up to 4 in all; with none in the text and
\* the trend hashtags funny, techinnovation, party it has techinnovation;
\* with 3 or more in the text it has the hashtags of the text
C16_LinkedinBackfill ==
    PostOf("linkedin")
        => LET extracted == extract_hashtags(result.value["text"])
               hashtags == result.value["hashtags"]
           IN /\ IF Len(extracted) < 3
                 THEN hashtags = TopUp(extracted,
                                       _filter_professional_hashtags(TrendTags), 4)
                 ELSE hashtags = extracted
              /\ (extracted = <<>> /\ TrendTags = <<Tag_funny, Tag_techinnovation, Tag_party>>)
                    => hashtags = <<Tag_techinnovation>>

C16_Witness ==
    /\ PostOf("linkedin")
    /\ result.value["text"] = PlainText
    /\ TrendTags = <<Tag_funny, Tag_techinnovation, Tag_party>>
    /\ result.value["hashtags"] = <<Tag_techinnovation>>


\* C20: get_brand_profile returns the profile most recently saved under the
\* name, and None, without raising, for a name that was never saved, whether
\* or not the store file exists.
C20_GetReturnsLastSaved ==
    Done("get_brand_profile") =>
        /\ result.status = "returned"
        /\ result.value.found = (call["brand_name"] \in DOMAIN saved)
        /\ result.value.found => result.value.profile = saved[call["brand_name"]]

\* a name asked for whose profile was replaced, with another name in the
\* store too: the replacing profile comes back
C20_Witness ==
    /\ Done("get_brand_profile")
    /\ call["brand_name"] = "Acme"
    /\ "Beta" \in DOMAIN saved
    /\ result.value.found
    /\ result.value.profile = RevisedProfile


AllIdle == \A s \in Servers : writers[s].pc = "idle"

\* C21: with the saves run one at a time, the store holds after every save
\* exactly the names saved so far, each with the profile last saved under it,
\* also when the file could not be parsed at the time of a save.
C21_SaveReplacesOnlyItsEntry ==
    (AllIdle /\ ~faults.overlapped /\ store.exists /\ store.complete)
        => /\ get_brand_list(store).error = "none"
           /\ Range(get_brand_list(store).names) = DOMAIN saved
           /\ Load(store).brands = saved

\* C30: with concurrent saves under different names and no write cut short,
\* the store holds, once the saves have completed, every name saved, each with
\* the profile saved under it.
C30_NoLostUpdate ==
    (AllIdle /\ ~faults.interrupted) => Load(store).brands = saved


\* C22: draft_post_content called with platform "x" in either letter case
\* never ends with the unsupported-platform error, and the post it returns is
\* a twitter post: platform "twitter", a text within the twitter length.
C22_XIsTwitter ==
    (Done("draft_post_content") /\ call["platform"] \in {"x", "X"})
        => /\ result.status = "raised" => result.value.type # "ValueError"
           /\ result.status = "returned"
                 => /\ result.value["platform"] = "twitter"
                    /\ "text" \in DOMAIN result.value
                    /\ result.value["character_count"] = Len(result.value["text"])

C22_Witness ==
    /\ Done("draft_post_content")
    /\ call["platform"] = "X"
    /\ result.status = "returned"
    /\ result.value["platform"] = "twitter"


StageAt(i) == log[i][1]

C24_Ops == {"generate_content", "generate_multi_platform_content"}

C25_AccessorsFallBackToDefault ==
    /\ Done("get_section")
          => LET g == call["guidelines"]
             IN (NoGuidelines(g) \/ call["section"] \notin DOMAIN g.profile)
                   => result.value["get_section"] = "default"
    /\ Done("get_platform_guidelines")
          => LET g == call["guidelines"]
                 held == /\ ~NoGuidelines(g)
                         /\ "platforms" \in DOMAIN g.profile
                         /\ LowerName(call["platform"]) \in DOMAIN g.profile["platforms"]
             IN ~held => result.value["get_platform_guidelines"] = "default"
    /\ Done("get_guidelines")
          => (NoGuidelines(call["guidelines"])
                 => result.value["get_guidelines"] = _get_default_guidelines)


\* C26: the hashtags of a post generate_content returns, and of an output of
\* format_for_platform, are no more than the platform's hashtag_limit.
C26_HashtagsWithinLimit ==
    /\ call["op"] \in C24_Ops
          => \A i \in 1..Len(ended) :
                ended[i].outcome.status = "returned"
                   => LET post == ended[i].outcome.value
                      IN Len(post["hashtags"])
                            <= platform_constraints[post["platform"]].hashtag_limit
    /\ (Done("format_for_platform") /\ call["platform"] \in Platforms
           /\ "hashtags" \in DOMAIN result.value)
          => Len(result.value["hashtags"])
                <= platform_constraints[call["platform"]].hashtag_limit


\* C27: formatting the output of format_for_platform again for the same
\* platform changes nothing, and the hashtags the call puts in the output are
\* the hashtags of the output's primary text.
C27_FormatIdempotent ==
    (Done("format_for_platform") /\ call["platform"] \in Platforms)
        => LET p == call["platform"]
               out == result.value
           IN /\ format_for_platform(out, p) = out
              /\ ("hashtags" \in DOMAIN out /\ "hashtags" \notin DOMAIN call["content"])
                    => out["hashtags"] = extract_hashtags(out[PrimaryKey(p)])


\* C28: draft_post_content for a brand with no stored profile, its pages
\* fetched, ends with a result it returns (a post or an error result), not
\* with an exception.
C28_MissingProfileIsHandled ==
    (/\ Done("draft_post_content")
     /\ ~tool.brand_profile.found
     /\ tool.brand_profile.error = "none"
     /\ \A i \in 1..Len(log) : log[i] # <<"fetch", "failed">>)
        => result.status = "returned"


\* C29: with image generation enabled, the aspect ratio a platform's pipeline
\* has for its generate_image call is the platform's ideal_image_ratio, and
\* the dimension lookup has a branch for it.
C29_PipelineUsesIdealRatio ==
    (call["op"] \in C24_Ops /\ cur # EmptyDict /\ cur.enabled)
        => /\ cur.aspect_ratio = platform_constraints[cur.target].ideal_image_ratio
           /\ platform_constraints[cur.target].ideal_image_ratio \in KnownAspectRatios

====
